---- MODULE Spec2Model ----
(***************************************************************************)
(* The CharacterSearch component (src/unnamed/part_000): the search box,  *)
(* its fetch effect, keyboard and mouse selection, the provisional         *)
(* selectedCharacters list and the committed addedCharacters list.         *)
(*                                                                         *)
(* A Character is represented by its id: every comparison the component    *)
(* makes between characters is on c.id; image and episode are only         *)
(* rendered, and name is read by highlightQuery when a row is rendered     *)
(* (Name).  One action is one event handler together with the              *)
(* render and the useEffect run it causes (React flushes both before the   *)
(* next discrete event), or the settling of one outstanding fetch promise. *)
(* A render that throws (highlightQuery on a text that is no regular       *)
(* expression or whose split of a shown name has an undefined part,        *)
(* character.id of an undefined entry) unmounts the component.             *)
(***************************************************************************)
EXTENDS Integers, Sequences, FiniteSets, Bags, TLC

\* ---- bounds of the model ----
MaxInflight == 2    \* fetch promises outstanding at once
MaxNeg == 2         \* highlightedIndex is followed down to -MaxNeg

\* ---- values of the program ----
Undefined == 0      \* characters[i] for an i that is no index of the array
NaN == -1000        \* (prev + 1) % 0
Null == "null"
ErrorText == "Error fetching characters"

\* the ids of the characters the directory holds
Ids == {1, 2}
\* character.name of each of them, letter by letter
Name(c) ==
    IF c = 1
    THEN <<"R", "i", "c", "k", " ", "S", "a", "n", "c", "h", "e", "z">>
    ELSE <<"M", "o", "r", "t", "y", " ", "S", "m", "i", "t", "h">>
\* the texts of the input: empty, a plain one, one that is no regular
\* expression once wrapped in a group, one whose second group is unset
\* wherever its first alternative matches
Queries == {"", "a", "(", "a|(b)"}

VARIABLES query, characters, loading, highlightedIndex, selectedCharacters,
          addedCharacters, error, pending, toast, mounted, last

vars == <<query, characters, loading, highlightedIndex, selectedCharacters,
          addedCharacters, error, pending, toast, mounted, last>>

\* ---- helpers: the array methods the component uses ----

\* the ids of the entries of list
IdsOf(list) == {list[i] : i \in DOMAIN list}

\* list.some((c) => c.id === id), list.find((c) => c.id === id) as a truth value
HasId(list, id) == \E i \in DOMAIN list : list[i] = id


\* variant: the comparison of the filter inverted, c.id === id
RemoveByIdInverted(list, id) == SelectSeq(list, LAMBDA c : c = id)

\* list.filter((c) => c.id !== id)
RemoveById(list, id) == SelectSeq(list, LAMBDA c : c # id)


\* variant: the negation of the filter dropped, the selected ones are kept
FilterSelectedKept(data, selected) == SelectSeq(data, LAMBDA c : HasId(selected, c))

\* data.filter((character) => !selected.some((c) => c.id === character.id))
FilterSelected(data, selected) == SelectSeq(data, LAMBDA c : ~HasId(selected, c))


\* variant: no filter against addedCharacters
UniqueCharactersAll(selected, added) == selected

\* selectedCharacters.filter((character) => !addedCharacters.some(...))
UniqueCharacters(selected, added) == SelectSeq(selected, LAMBDA c : ~HasId(added, c))

\* characters[i], JavaScript indexing from 0
At(list, i) == IF i # NaN /\ 0 <= i /\ i < Len(list) THEN list[i + 1] ELSE Undefined

\* a % n of JavaScript: the sign of the dividend, NaN for n = 0 or a NaN operand
JsRem(a, n) ==
    IF a = NaN \/ n = 0 THEN NaN
    ELSE IF a >= 0 THEN a % n ELSE 0 - ((0 - a) % n)

\* (prev) => (prev + 1) % characters.length
ArrowDownIndex(prev, n) == IF prev = NaN THEN NaN ELSE JsRem(prev + 1, n)


\* variant: no wrap at 0
ArrowUpIndexNoWrap(prev, n) == IF prev = NaN THEN NaN ELSE prev - 1

\* (prev) => prev === 0 ? characters.length - 1 : prev - 1
ArrowUpIndex(prev, n) ==
    IF prev = 0 THEN n - 1 ELSE IF prev = NaN THEN NaN ELSE prev - 1

\* the id-ordered lists of distinct characters the directory can answer with
RECURSIVE Ascending(_)
Ascending(S) ==
    IF S = {} THEN <<>>
    ELSE LET m == CHOOSE x \in S : \A y \in S : x <= y
         IN <<m>> \o Ascending(S \ {m})

Responses == {Ascending(S) : S \in SUBSET Ids}

\* what one request can come to: a JSON body with a results array, a JSON body
\* without one (the directory's answer when nothing matches), a failed request,
\* a body that is no JSON
NetworkOutcomes ==
    {[kind |-> "results", results |-> r] : r \in Responses}
        \cup {[kind |-> k, results |-> <<>>] : k \in {"noresults", "network", "parse"}}

\* variant: data.results returned without its || []
FetchCharactersNoDefault(o) ==
    IF o.kind = "results"
    THEN [status |-> "resolved", value |-> o.results]
    ELSE [status |-> "rejected", value |-> <<>>]

\* fetchCharacters(query): one fetch, response.json(), data.results || [];
\* whatever the try block throws is logged and thrown again
FetchCharacters(o) ==
    IF o.kind \in {"network", "parse"}
    THEN [status |-> "rejected", value |-> <<>>]
    ELSE [status |-> "resolved",
          value |-> IF o.kind = "results" THEN o.results ELSE <<>>]

\* the selectedCharacters a then-callback closes over, held as the id-ordered
\* list of its ids: the callback only tests membership of an id in it
Closure(selected) == Ascending(IdsOf(selected))

\* new RegExp(`(${query})`, "gi") throws a SyntaxError
RegExpThrows(q) == q = "("

\* text.split(new RegExp(`(${query})`, "gi")) holds an undefined part: some
\* match leaves a group of the pattern unset.  In "(a|(b))" that is every match
\* of the first alternative, so every a or A of the text
SplitHasUndefined(text, q) ==
    q = "a|(b)" /\ \E i \in DOMAIN text : text[i] \in {"a", "A"}

\* highlightQuery(text, query) throws: the constructor does, or
\* part.toLowerCase() on an undefined part of the split
HighlightQueryThrows(text, q) ==
    RegExpThrows(q) \/ SplitHasUndefined(text, q)

\* the render with these values shows the result rows and calls
\* highlightQuery(character.name, query) for each of them, and one call throws
RenderThrows(q, chars, ld, err) ==
    /\ ~ld /\ err = Null /\ Len(chars) > 0
    /\ \E i \in DOMAIN chars : HighlightQueryThrows(Name(chars[i]), q)

\* the result list is rendered: !loading && !error && characters.length > 0
ListShown == ~loading /\ error = Null /\ Len(characters) > 0

NoEvent == [op |-> "Init", id |-> 0, q |-> "", data |-> <<>>, sel |-> <<>>,
            net |-> "none", body |-> <<>>]
Event(op, id) == [NoEvent EXCEPT !.op = op, !.id = id]

Init ==
    /\ query = ""
    /\ characters = <<>>
    /\ loading = FALSE
    /\ highlightedIndex = 0
    /\ selectedCharacters = <<>>
    /\ addedCharacters = <<>>
    /\ error = Null
    /\ pending = EmptyBag
    /\ toast = "none"
    /\ mounted = TRUE
    /\ last = NoEvent


\* variant: the effect without its if (query) test
UseEffectUnguarded(q, sel, chars) ==
    /\ loading' = TRUE
    /\ error' = Null
    /\ pending' = pending (+) SetToBag({[q |-> q, sel |-> Closure(sel)]})
    /\ characters' = chars

\* variant: the effect without its setError(null)
UseEffectKeepsError(q, sel, chars) ==
    IF q # ""
    THEN /\ loading' = TRUE
         /\ UNCHANGED error
         /\ pending' = pending (+) SetToBag({[q |-> q, sel |-> Closure(sel)]})
         /\ characters' = chars
    ELSE /\ characters' = <<>>
         /\ UNCHANGED <<loading, error, pending>>

\* ---- the effect on [query, selectedCharacters] ----
\* q, sel: the values of the render the effect belongs to; chars: the
\* characters state the handler left behind.
UseEffect(q, sel, chars) ==
    IF q # ""
    THEN /\ loading' = TRUE
         /\ error' = Null
         /\ pending' = pending (+) SetToBag({[q |-> q, sel |-> Closure(sel)]})
         /\ characters' = chars
    ELSE /\ characters' = <<>>
         /\ UNCHANGED <<loading, error, pending>>

\* the effect can issue its fetch within the model's bound
CanFetch(q) == q = "" \/ BagCardinality(pending) < MaxInflight

\* the promise of the fetch f has settled
Settle(f) == pending (-) SetToBag({f})

\* ---- handlers ----

\* handleInputChange: setQuery(event.target.value), the render with the new
\* query, then the effect; a render that throws comes before the effect
HandleInputChange ==
    \E v \in Queries \ {query} :
        /\ mounted
        /\ query' = v
        /\ IF RenderThrows(v, characters, loading, error)
           THEN /\ mounted' = FALSE
                /\ UNCHANGED <<characters, loading, error, pending>>
           ELSE /\ CanFetch(v)
                /\ UseEffect(v, selectedCharacters, characters)
                /\ UNCHANGED mounted
        /\ toast' = "none"
        /\ last' = [Event("Input", 0) EXCEPT !.q = v]
        /\ UNCHANGED <<highlightedIndex, selectedCharacters, addedCharacters>>

\* handleKeyDown, "ArrowDown"
ArrowDown ==
    /\ mounted
    /\ highlightedIndex' = ArrowDownIndex(highlightedIndex, Len(characters))
    /\ toast' = "none"
    /\ last' = Event("ArrowDown", 0)
    /\ UNCHANGED <<query, characters, loading, selectedCharacters, addedCharacters,
                   error, pending, mounted>>

\* handleKeyDown, "ArrowUp"; below -MaxNeg the model stops following the index
ArrowUp ==
    /\ mounted
    /\ LET next == ArrowUpIndex(highlightedIndex, Len(characters))
       IN /\ next = NaN \/ next >= 0 - MaxNeg
          /\ highlightedIndex' = next
    /\ toast' = "none"
    /\ last' = Event("ArrowUp", 0)
    /\ UNCHANGED <<query, characters, loading, selectedCharacters, addedCharacters,
                   error, pending, mounted>>

\* variant: the find test of handleSelectCharacter left out
HandleSelectCharacterNoCheck(character) ==
    IF character = Undefined /\ Len(selectedCharacters) > 0
    THEN UNCHANGED <<query, characters, loading, selectedCharacters, error,
                     pending, mounted>>
    ELSE /\ selectedCharacters' = Append(selectedCharacters, character)
         /\ query' = ""
         /\ characters' = <<>>
         /\ mounted' = (character # Undefined)
         /\ UNCHANGED <<loading, error, pending>>

\* handleSelectCharacter(character), with the render and the effect after it.
\* character.id of undefined throws: inside find's callback when
\* selectedCharacters has an element to call it on (the handler stops there),
\* otherwise in the next render's selectedCharacters.map, which takes the
\* component down.
HandleSelectCharacter(character) ==
    IF character = Undefined /\ Len(selectedCharacters) > 0
    THEN UNCHANGED <<query, characters, loading, selectedCharacters, error,
                     pending, mounted>>
    ELSE /\ selectedCharacters' =
               IF HasId(selectedCharacters, character)
               THEN selectedCharacters
               ELSE Append(selectedCharacters, character)
         /\ query' = ""
         /\ characters' = <<>>
         /\ mounted' = (character # Undefined)
         /\ UNCHANGED <<loading, error, pending>>

\* handleKeyDown, "Enter"
Enter ==
    /\ mounted
    /\ IF Len(characters) > 0
       THEN HandleSelectCharacter(At(characters, highlightedIndex))
       ELSE UNCHANGED <<query, characters, loading, selectedCharacters, error,
                        pending, mounted>>
    /\ toast' = "none"
    /\ last' = Event("Enter", IF Len(characters) > 0
                              THEN At(characters, highlightedIndex) ELSE Undefined)
    /\ UNCHANGED <<highlightedIndex, addedCharacters>>

\* onClick of a result row
Click ==
    \E i \in DOMAIN characters :
        /\ mounted
        /\ ListShown
        /\ HandleSelectCharacter(characters[i])
        /\ toast' = "none"
        /\ last' = Event("Click", characters[i])
        /\ UNCHANGED <<highlightedIndex, addedCharacters>>

\* onMouseEnter of a result row: setHighlightedIndex(index)
Hover ==
    \E i \in DOMAIN characters :
        /\ mounted
        /\ ListShown
        /\ highlightedIndex' = i - 1
        /\ toast' = "none"
        /\ last' = Event("Hover", i - 1)
        /\ UNCHANGED <<query, characters, loading, selectedCharacters, addedCharacters,
                       error, pending, mounted>>

\* handleRemoveCharacter(id), the x of a tag; filter makes a new array, so the
\* effect runs again
HandleRemoveCharacter ==
    \E id \in Ids :
        /\ mounted
        /\ HasId(selectedCharacters, id)
        /\ CanFetch(query)
        /\ selectedCharacters' = RemoveById(selectedCharacters, id)
        /\ UseEffect(query, selectedCharacters', characters)
        /\ toast' = "none"
        /\ last' = Event("RemoveSelected", id)
        /\ UNCHANGED <<query, highlightedIndex, addedCharacters, mounted>>

\* handleRemoveCharacterList(id), the x of a row of the committed list
HandleRemoveCharacterList ==
    \E id \in Ids :
        /\ mounted
        /\ HasId(addedCharacters, id)
        /\ addedCharacters' = RemoveById(addedCharacters, id)
        /\ toast' = "success"
        /\ last' = Event("RemoveAdded", id)
        /\ UNCHANGED <<query, characters, loading, highlightedIndex, selectedCharacters,
                       error, pending, mounted>>


\* variant: the else branch without its toast.error
HandleAddCharactersSilent ==
    /\ mounted
    /\ LET uniqueCharacters == UniqueCharacters(selectedCharacters, addedCharacters)
       IN IF Len(uniqueCharacters) > 0
          THEN /\ CanFetch(query)
               /\ addedCharacters' = addedCharacters \o uniqueCharacters
               /\ selectedCharacters' = <<>>
               /\ toast' = "success"
               /\ UseEffect(query, <<>>, characters)
          ELSE /\ toast' = "none"
               /\ UNCHANGED <<characters, loading, selectedCharacters, addedCharacters,
                              error, pending>>
    /\ last' = Event("Add", 0)
    /\ UNCHANGED <<query, highlightedIndex, mounted>>

\* variant: setSelectedCharacters([]) forgotten
HandleAddCharactersKeep ==
    /\ mounted
    /\ LET uniqueCharacters == UniqueCharacters(selectedCharacters, addedCharacters)
       IN IF Len(uniqueCharacters) > 0
          THEN /\ addedCharacters' = addedCharacters \o uniqueCharacters
               /\ toast' = "success"
               /\ UNCHANGED <<characters, loading, selectedCharacters, error, pending>>
          ELSE /\ toast' = "error"
               /\ UNCHANGED <<characters, loading, selectedCharacters, addedCharacters,
                              error, pending>>
    /\ last' = Event("Add", 0)
    /\ UNCHANGED <<query, highlightedIndex, mounted>>

\* handleAddCharacters, the Add Character button
HandleAddCharacters ==
    /\ mounted
    /\ LET uniqueCharacters == UniqueCharacters(selectedCharacters, addedCharacters)
       IN IF Len(uniqueCharacters) > 0
          THEN /\ CanFetch(query)
               /\ addedCharacters' = addedCharacters \o uniqueCharacters
               /\ selectedCharacters' = <<>>
               /\ toast' = "success"
               /\ UseEffect(query, <<>>, characters)
          ELSE /\ toast' = "error"
               /\ UNCHANGED <<characters, loading, selectedCharacters, addedCharacters,
                              error, pending>>
    /\ last' = Event("Add", 0)
    /\ UNCHANGED <<query, highlightedIndex, mounted>>

\* ---- the outstanding fetches settle, in any order ----

\* variant: the response is dropped unless it answers the query of the input
FetchSuccessLatestOnly ==
    \E f \in BagToSet(pending), o \in NetworkOutcomes :
        /\ FetchCharacters(o).status = "resolved"
        /\ pending' = Settle(f)
        /\ IF mounted /\ f.q = query
           THEN /\ characters' = FilterSelected(FetchCharacters(o).value, f.sel)
                /\ loading' = FALSE
                /\ mounted' = ~RenderThrows(query, characters', FALSE, error)
           ELSE UNCHANGED <<characters, loading, mounted>>
        /\ toast' = "none"
        /\ last' = [op |-> "FetchSuccess", id |-> 0, q |-> f.q,
                    data |-> FetchCharacters(o).value, sel |-> f.sel,
                    net |-> o.kind, body |-> o.results]
        /\ UNCHANGED <<query, highlightedIndex, selectedCharacters, addedCharacters,
                       error>>

\* .then((data) => ...): the filter reads the selectedCharacters of the render
\* that issued the fetch; the render that follows shows the rows unless the
\* error message is set
FetchSuccess ==
    \E f \in BagToSet(pending), o \in NetworkOutcomes :
        /\ FetchCharacters(o).status = "resolved"
        /\ pending' = Settle(f)
        /\ IF mounted
           THEN /\ characters' = FilterSelected(FetchCharacters(o).value, f.sel)
                /\ loading' = FALSE
                /\ mounted' = ~RenderThrows(query, characters', FALSE, error)
           ELSE UNCHANGED <<characters, loading, mounted>>
        /\ toast' = "none"
        /\ last' = [op |-> "FetchSuccess", id |-> 0, q |-> f.q,
                    data |-> FetchCharacters(o).value, sel |-> f.sel,
                    net |-> o.kind, body |-> o.results]
        /\ UNCHANGED <<query, highlightedIndex, selectedCharacters, addedCharacters,
                       error>>

\* variant: the catch callback without its setLoading(false)
FetchFailureStillLoading ==
    \E f \in BagToSet(pending), o \in NetworkOutcomes :
        /\ FetchCharacters(o).status = "rejected"
        /\ pending' = Settle(f)
        /\ IF mounted
           THEN error' = ErrorText
           ELSE UNCHANGED error
        /\ toast' = "none"
        /\ last' = [Event("FetchFailure", 0) EXCEPT !.net = o.kind]
        /\ UNCHANGED <<query, characters, loading, highlightedIndex,
                       selectedCharacters, addedCharacters, mounted>>

\* .catch((err) => ...)
FetchFailure ==
    \E f \in BagToSet(pending), o \in NetworkOutcomes :
        /\ FetchCharacters(o).status = "rejected"
        /\ pending' = Settle(f)
        /\ IF mounted
           THEN /\ loading' = FALSE
                /\ error' = ErrorText
           ELSE UNCHANGED <<loading, error>>
        /\ toast' = "none"
        /\ last' = [Event("FetchFailure", 0) EXCEPT !.net = o.kind]
        /\ UNCHANGED <<query, characters, highlightedIndex, selectedCharacters,
                       addedCharacters, mounted>>

Next ==
    \/ HandleInputChange
    \/ ArrowDown
    \/ ArrowUp
    \/ Enter
    \/ Click
    \/ Hover
    \/ HandleRemoveCharacter
    \/ HandleRemoveCharacterList
    \/ HandleAddCharacters
    \/ FetchSuccess
    \/ FetchFailure

Spec == Init /\ [][Next]_vars

\* every render of the mounted component has returned: no row is shown for a
\* query highlightQuery throws on, no entry of selectedCharacters is undefined
RenderReturned ==
    mounted => /\ ~RenderThrows(query, characters, loading, error)
               /\ Undefined \notin IdsOf(selectedCharacters)

TypeOK ==
    /\ query \in Queries
    /\ loading \in BOOLEAN
    /\ mounted \in BOOLEAN
    /\ error \in {Null, ErrorText}
    /\ toast \in {"none", "success", "error"}
    /\ BagCardinality(pending) <= MaxInflight
    /\ \A i \in DOMAIN characters : characters[i] \in Ids

\* ---- the claims ----

Disjoint == IdsOf(selectedCharacters) \cap IdsOf(addedCharacters) = {}
InRange == highlightedIndex # NaN /\ 0 <= highlightedIndex
           /\ highlightedIndex < Len(characters)

\* C1: whenever a fetch success has been applied, the candidate list holds no
\* candidate whose id is in selectedCharacters at that moment.
C1_FetchedListExcludesSelected ==
    (last.op = "FetchSuccess" /\ mounted)
        => IdsOf(characters) \cap IdsOf(selectedCharacters) = {}

\* C2 as stated: a candidate list produced by a fetch success holds no candidate
\* whose id is in addedCharacters.
C2_FetchedListExcludesAdded ==
    (last.op = "FetchSuccess" /\ mounted)
        => IdsOf(characters) \cap IdsOf(addedCharacters) = {}

\* C2 amended: the list a fetch success produces is the response, in its order,
\* without exactly the candidates whose id was in the selectedCharacters the
\* fetch was issued with; membership of addedCharacters removes nothing.
C2_FetchedListFiltersIssuedSelection ==
    (last.op = "FetchSuccess" /\ mounted)
        => /\ IdsOf(characters) = IdsOf(last.data) \ IdsOf(last.sel)
           /\ Len(characters) = Cardinality(IdsOf(characters))
           /\ \A i, j \in DOMAIN characters :
                  i < j => \E m, n \in DOMAIN last.data :
                               /\ m < n
                               /\ last.data[m] = characters[i]
                               /\ last.data[n] = characters[j]

\* a freshly fetched list shows a candidate that is in addedCharacters
C2_Witness ==
    /\ last.op = "FetchSuccess"
    /\ mounted
    /\ IdsOf(characters) \cap IdsOf(addedCharacters) # {}

\* C3: whenever the candidate list is non-empty, 0 <= highlightedIndex < its length.
C3_HighlightInRange == Len(characters) > 0 => InRange

\* C4: with a non-empty list of length n and the highlight i in [0, n), ArrowDown
\* sets it to (i+1) mod n and ArrowUp to i-1, or to n-1 from 0; neither changes
\* query, characters, selectedCharacters or addedCharacters.
C4_ArrowsWrap ==
    [][ (Len(characters) > 0 /\ InRange /\ last'.op \in {"ArrowDown", "ArrowUp"})
          => /\ last'.op = "ArrowDown" =>
                   highlightedIndex' = (highlightedIndex + 1) % Len(characters)
             /\ last'.op = "ArrowUp" =>
                   highlightedIndex' = IF highlightedIndex = 0
                                       THEN Len(characters) - 1
                                       ELSE highlightedIndex - 1
             /\ UNCHANGED <<query, characters, selectedCharacters, addedCharacters>>
      ]_vars

\* ArrowUp has wrapped from 0 to the last row of a two-row list
C4_Witness ==
    /\ last.op = "ArrowUp"
    /\ Len(characters) = 2
    /\ highlightedIndex = 1

\* C5: a commit, by Enter on a non-empty list (the highlighted candidate) or by
\* a click (the clicked one), empties query and characters, appends that
\* candidate to selectedCharacters when its id is not there and leaves
\* selectedCharacters alone when it is, and leaves addedCharacters unchanged.
C5_CommitClearsAndSelectsOne ==
    [][ (last'.op = "Click" \/ (last'.op = "Enter" /\ Len(characters) > 0))
          => /\ query' = ""
             /\ characters' = <<>>
             /\ last'.id \in IdsOf(characters)
             /\ selectedCharacters' =
                    IF last'.id \in IdsOf(selectedCharacters)
                    THEN selectedCharacters
                    ELSE selectedCharacters \o <<last'.id>>
             /\ addedCharacters' = addedCharacters
      ]_vars

\* the candidates Add has to move: in selectedCharacters, not in addedCharacters
Movable == IdsOf(selectedCharacters) \ IdsOf(addedCharacters)

\* C6 as stated: Add with a non-empty selectedCharacters appends to
\* addedCharacters every selected candidate not already there and leaves
\* selectedCharacters empty.
C6_AddMovesAndClears ==
    [][ (last'.op = "Add" /\ Len(selectedCharacters) > 0)
          => /\ selectedCharacters' = <<>>
             /\ SubSeq(addedCharacters', 1, Len(addedCharacters)) = addedCharacters
             /\ IdsOf(addedCharacters') = IdsOf(addedCharacters) \cup Movable
             /\ Len(addedCharacters') = Len(addedCharacters) + Cardinality(Movable)
      ]_vars

\* C6 amended: Add with at least one selected candidate not already in
\* addedCharacters appends every such candidate after addedCharacters' earlier
\* entries and leaves selectedCharacters empty; Add with a non-empty
\* selectedCharacters all of whose candidates are already added changes neither.
C6_AddMovesUnlessAllAdded ==
    [][ (last'.op = "Add" /\ Len(selectedCharacters) > 0)
          => IF Movable # {}
             THEN /\ selectedCharacters' = <<>>
                  /\ SubSeq(addedCharacters', 1, Len(addedCharacters)) = addedCharacters
                  /\ IdsOf(addedCharacters') = IdsOf(addedCharacters) \cup Movable
                  /\ Len(addedCharacters') = Len(addedCharacters) + Cardinality(Movable)
             ELSE UNCHANGED <<selectedCharacters, addedCharacters>>
      ]_vars

\* Add has moved two selected candidates into addedCharacters
C6_Witness ==
    /\ last.op = "Add"
    /\ toast = "success"
    /\ selectedCharacters = <<>>
    /\ Len(addedCharacters) = 2

\* C7 as stated: Add with an empty selectedCharacters raises an error notice and
\* changes neither set; Add raises an error notice only then, and every Add with
\* a non-empty selectedCharacters raises a success notice.
C7_AddErrorIffEmpty ==
    [][ last'.op = "Add"
          => /\ (toast' = "error") = (selectedCharacters = <<>>)
             /\ (toast' = "success") = (selectedCharacters # <<>>)
             /\ selectedCharacters = <<>> =>
                    UNCHANGED <<selectedCharacters, addedCharacters>>
      ]_vars

\* C7 amended: Add raises an error notice exactly when selectedCharacters holds
\* no candidate that is absent from addedCharacters (it is empty, or all of it
\* is already added), and then changes neither set; every other Add raises a
\* success notice.
C7_AddErrorIffNothingToMove ==
    [][ last'.op = "Add"
          => /\ (toast' = "error") = (Movable = {})
             /\ (toast' = "success") = (Movable # {})
             /\ Movable = {} => UNCHANGED <<selectedCharacters, addedCharacters>>
      ]_vars

\* Add with nothing selected has raised the error notice
C7_Witness ==
    /\ last.op = "Add"
    /\ toast = "error"
    /\ selectedCharacters = <<>>
    /\ addedCharacters # <<>>

\* list without its entry at the one position that holds id
WithoutOnly(list, id, after) ==
    /\ \E k \in DOMAIN list :
          /\ list[k] = id
          /\ after = SubSeq(list, 1, k - 1) \o SubSeq(list, k + 1, Len(list))
    /\ id \notin IdsOf(after)

\* C8: Remove-from-added(id) takes exactly the entry with that id out of
\* addedCharacters, keeps the others in order, leaves selectedCharacters
\* unchanged and raises a success notice; Remove-from-selected(id) does the
\* same to selectedCharacters and leaves addedCharacters unchanged.
C8_RemovalsIndependent ==
    [][ /\ last'.op = "RemoveAdded" =>
              /\ WithoutOnly(addedCharacters, last'.id, addedCharacters')
              /\ selectedCharacters' = selectedCharacters
              /\ toast' = "success"
        /\ last'.op = "RemoveSelected" =>
              /\ WithoutOnly(selectedCharacters, last'.id, selectedCharacters')
              /\ addedCharacters' = addedCharacters
      ]_vars

\* one of two committed entries has been removed while a selection stands
C8_Witness ==
    /\ last.op = "RemoveAdded"
    /\ Len(addedCharacters) = 1
    /\ last.id \notin IdsOf(addedCharacters)
    /\ Len(selectedCharacters) > 0

\* the step ran the effect: a dependency, query or selectedCharacters, was set
EffectRan ==
    \/ last'.op \in {"Input", "RemoveSelected"}
    \/ last'.op = "Add" /\ toast' = "success"

\* C9: with an empty query the fetch step issues no request and sets the
\* candidate list to empty; a request is issued only with a non-empty query.
C9_NoFetchOnEmptyQuery ==
    [][ /\ (EffectRan /\ query' = "") => (pending' = pending /\ characters' = <<>>)
        /\ BagCardinality(pending') > BagCardinality(pending) => query' # ""
        /\ \A f \in BagToSet(pending') : f.q # ""
      ]_vars

\* the input was emptied while an earlier fetch was outstanding
C9_Witness ==
    /\ last.op = "Input"
    /\ query = ""
    /\ characters = <<>>
    /\ BagCardinality(pending) = 1

\* C10 as stated: no candidate id is in both selectedCharacters and
\* addedCharacters, in every reachable state.
C10_SelectedAddedDisjoint == Disjoint

\* C10 amended: only a commit (Enter or click) of a candidate whose id is
\* already in addedCharacters makes the two lists overlap; every other step
\* keeps disjoint lists disjoint, and every Add that raises a success notice
\* leaves them disjoint.
C10_OnlyCommitOverlaps ==
    [][ /\ (Disjoint /\ ~Disjoint') =>
              /\ last'.op \in {"Enter", "Click"}
              /\ last'.id \in IdsOf(addedCharacters)
        /\ (last'.op = "Add" /\ toast' = "success") => Disjoint'
      ]_vars

\* a click has selected a candidate that is already in addedCharacters
C10_Witness ==
    /\ last.op = "Click"
    /\ last.id \in IdsOf(addedCharacters)
    /\ ~Disjoint

\* no id occurs twice in list
NoDuplicate(list) == \A i, j \in DOMAIN list : list[i] = list[j] => i = j

\* after holds the entries of list, in their order, at its front
GrowsAtEnd(list, after) ==
    Len(after) > Len(list) => SubSeq(after, 1, Len(list)) = list

\* C11: selectedCharacters holds no two entries with the same id, and neither
\* does addedCharacters; a new entry of either list is appended after the
\* entries that were there.
C11_UniqueAndInsertionOrder ==
    [][ /\ NoDuplicate(selectedCharacters')
        /\ NoDuplicate(addedCharacters')
        /\ GrowsAtEnd(selectedCharacters, selectedCharacters')
        /\ GrowsAtEnd(addedCharacters, addedCharacters')
      ]_vars

\* a second candidate has been selected behind the first, next to two added ones
C11_Witness ==
    /\ last.op \in {"Enter", "Click"}
    /\ Len(selectedCharacters) = 2
    /\ selectedCharacters[2] = last.id
    /\ Len(addedCharacters) = 2

\* C12: one call of the fetcher is one request with one of three outcomes: a
\* body with a results array yields that array, a parsed body without results
\* yields the empty list and no error, a network or parse failure reaches the
\* caller as an error; the call is not repeated.
C12_FetcherOutcomes ==
    [][ last'.op \in {"FetchSuccess", "FetchFailure"}
          => /\ last'.net = "results" =>
                   (last'.op = "FetchSuccess" /\ last'.data = last'.body)
             /\ last'.net = "noresults" =>
                   (last'.op = "FetchSuccess" /\ last'.data = <<>>)
             /\ last'.net \in {"network", "parse"} => last'.op = "FetchFailure"
             /\ last'.net \in {"results", "noresults", "network", "parse"}
             /\ BagCardinality(pending') = BagCardinality(pending) - 1
             /\ \A f \in BagToSet(pending') :
                    CopiesIn(f, pending') <= CopiesIn(f, pending)
      ]_vars

\* a body without results has been delivered as an empty list, with no error
C12_Witness ==
    /\ last.op = "FetchSuccess"
    /\ last.net = "noresults"
    /\ characters = <<>>
    /\ error = Null
    /\ ~loading

\* C13: whenever query is the empty string, the candidate list is empty, also
\* when a fetch response arrives after the query was emptied.
C13_EmptyQueryEmptyList == query = "" => characters = <<>>

\* the response applied last answers a request for another text than the
\* input holds now
StaleSuccess == last.op = "FetchSuccess" /\ mounted /\ last.q # query

\* C14: a fetch response is applied when it arrives, with no check that it
\* answers the latest request: after the response for q1 has arrived behind the
\* response for the later q2, characters holds q1's results (those not in the
\* selectedCharacters q1 was issued with) while query is q2.
C14_StaleResponseApplied ==
    StaleSuccess
        => /\ \A c \in IdsOf(last.data) :
                  c \in IdsOf(characters) <=> c \notin IdsOf(last.sel)
           /\ IdsOf(characters) \subseteq IdsOf(last.data)
           /\ ~loading

\* both fetches have settled, the one for "(" last: the list is its results,
\* the input reads "a"
C14_Witness ==
    /\ StaleSuccess
    /\ last.q = "("
    /\ query = "a"
    /\ pending = EmptyBag
    /\ characters # <<>>

\* C15 as stated: a fetch failure sets the error message, sets loading to
\* false and empties the candidate list, whatever the list held.
C15_FailureClearsList ==
    (last.op = "FetchFailure" /\ mounted)
        => (error = ErrorText /\ ~loading /\ characters = <<>>)

\* C15 amended: a fetch failure sets the error message and sets loading to
\* false; the candidate list keeps what it held and is not rendered while the
\* message is set.
C15_FailureKeepsList ==
    [][ (last'.op = "FetchFailure" /\ mounted)
          => /\ error' = ErrorText
             /\ loading' = FALSE
             /\ characters' = characters
             /\ ~ListShown'
      ]_vars

\* a fetch has failed over a candidate list that is still held
C15_Witness ==
    /\ last.op = "FetchFailure"
    /\ mounted
    /\ error = ErrorText
    /\ ~loading
    /\ Len(characters) = 2

\* C16: every change of the candidate list (a fetch success, the clearing on an
\* empty query, the clearing on a commit) leaves highlightedIndex at 0.
C16_ListChangeResetsHighlight ==
    [][ characters' # characters => highlightedIndex' = 0 ]_vars

\* C17: ArrowDown and ArrowUp over an empty candidate list change nothing:
\* highlightedIndex keeps its value, and so does every other state variable.
C17_ArrowsOnEmptyListNoOp ==
    [][ (last'.op \in {"ArrowDown", "ArrowUp"} /\ Len(characters) = 0)
          => UNCHANGED <<highlightedIndex, query, characters, loading,
                         selectedCharacters, addedCharacters, error, pending>>
      ]_vars

\* the step issued a fetch
FetchIssued == BagCardinality(pending') > BagCardinality(pending)

\* C18 as stated: once a fetch failure has set the error message, it stays set
\* until a fetch success is applied; no other event clears it, and a fetch
\* success clears it.
C18_ErrorUntilSuccess ==
    [][ /\ (error = ErrorText /\ last'.op # "FetchSuccess") => error' = ErrorText
        /\ (last'.op = "FetchSuccess" /\ mounted) => error' = Null
      ]_vars

\* C18 amended: once set, the error message stays set until the next fetch is
\* issued, which clears it; no other event clears it, and a fetch success
\* leaves it as it is.
C18_ErrorUntilNextFetch ==
    [][ /\ (error = ErrorText /\ error' = Null) => FetchIssued
        /\ FetchIssued => error' = Null
        /\ last'.op = "FetchSuccess" => error' = error
      ]_vars

\* a fetch success has been applied and the message of an earlier failure stands
C18_Witness ==
    /\ last.op = "FetchSuccess"
    /\ mounted
    /\ error = ErrorText
    /\ characters # <<>>

\* C19: loading is true exactly when a fetch is outstanding.
C19_LoadingIffInFlight ==
    mounted => (loading <=> BagCardinality(pending) > 0)

\* C20: every entry of selectedCharacters and of addedCharacters is a candidate
\* that a fetch returned; Enter inserts nothing else, whatever highlightedIndex
\* is and whether or not the list is rendered.
C20_EntriesAreCandidates ==
    IdsOf(selectedCharacters) \cup IdsOf(addedCharacters) \subseteq Ids

====
